---------------------------- MODULE Spec2Model ----------------------------
(***************************************************************************)
(* A model of spring-boot-layertools (src/src/main.rs, src/src/manifest.rs)*)
(*                                                                         *)
(* Strings are sequences of one-character strings, so that prefix tests,   *)
(* splitting at ':' or '/', and trimming are computed, not assumed.        *)
(* A path (std::path::Path / PathBuf) is the sequence of its components:   *)
(* <<"/">> is the root component, <<".">> the current-directory component, *)
(* <<".", ".">> the parent-directory component, any other sequence of      *)
(* characters a normal component.                                          *)
(***************************************************************************)
EXTENDS Integers, Sequences, FiniteSets, TLC

(***************************************************************************)
(* Bounds of the model.                                                    *)
(***************************************************************************)
MaxLines == 3
MaxMembers == 3
MaxEntries == 2
MaxLayers == 3
MaxDocs == 2
MaxItems == 3

(***************************************************************************)
(* Generic helpers.                                                        *)
(***************************************************************************)
SeqsUpTo(S, n) == UNION {[1..k -> S] : k \in 0..n}

Range(s) == {s[i] : i \in 1..Len(s)}

IsPrefix(p, s) == Len(p) <= Len(s) /\ SubSeq(s, 1, Len(p)) = p

Min(S) == CHOOSE x \in S : \A y \in S : x <= y

Max(S) == CHOOSE x \in S : \A y \in S : x >= y

\* The indices of s, in increasing order, as a sequence.
RECURSIVE SortedSeq(_)
SortedSeq(S) == IF S = {} THEN <<>> ELSE <<Min(S)>> \o SortedSeq(S \ {Min(S)})

\* Option values: None, or Some(v).
None == [some |-> FALSE, v |-> <<>>]

Some(x) == [some |-> TRUE, v |-> x]

(***************************************************************************)
(* std::path on Unix.                                                      *)
(***************************************************************************)
RootDir == <<"/">>

CurDir == <<".">>

ParentDir == <<".", ".">>

\* str::ends_with('/')
EndsWithSlash(s) == s # <<>> /\ s[Len(s)] = "/"

\* The text between the '/' separators of s (empty pieces included).
RECURSIVE SplitSlash(_)
SplitSlash(s) ==
    IF s = <<>> THEN << <<>> >>
    ELSE LET rest == SplitSlash(Tail(s))
         IN  IF Head(s) = "/" THEN << <<>> >> \o rest
             ELSE << <<Head(s)>> \o Head(rest) >> \o Tail(rest)

\* Path::new(s).components(): a leading '/' is the root; empty pieces are
\* dropped; a "." piece is dropped unless it leads a relative path.
Components(s) ==
    LET segs == SplitSlash(s)
        hasRoot == s # <<>> /\ s[1] = "/"
        keep == {i \in 1..Len(segs) :
                    /\ segs[i] # <<>>
                    /\ (segs[i] = CurDir => (i = 1 /\ ~hasRoot))}
        kept == SortedSeq(keep)
    IN  (IF hasRoot THEN <<RootDir>> ELSE <<>>)
            \o [j \in 1..Len(kept) |-> segs[kept[j]]]

\* Path::is_absolute / has_root
IsAbsolute(p) == p # <<>> /\ p[1] = RootDir

\* Path::starts_with: prefix by whole components.
StartsWith(p, base) == IsPrefix(base, p)

\* Path::join: an absolute argument replaces the path; otherwise its
\* components follow (a leading "." is then no longer leading, and is dropped).
Join(p, q) ==
    IF IsAbsolute(q) THEN q
    ELSE IF p = <<>> THEN q
    ELSE IF q # <<>> /\ q[1] = CurDir THEN p \o Tail(q)
    ELSE p \o q

\* Path::parent: the path without its last component; None for the root
\* or the empty path.
Parent(p) ==
    IF p = <<>> \/ p[Len(p)] = RootDir THEN None
    ELSE Some(SubSeq(p, 1, Len(p) - 1))

(***************************************************************************)
(* The file system: dirs is the set of existing directories and files maps *)
(* each existing regular file to its content.  Both are keyed by resolved  *)
(* location: the sequence of directory names from the file-system root.    *)
(* The process runs in the directory /w; there are no symbolic links.      *)
(***************************************************************************)
Cwd == << <<"w">> >>

\* The location a path names: ".." steps to the parent (the root is its own).
RECURSIVE ResolveFrom(_, _)
ResolveFrom(at, p) ==
    IF p = <<>> THEN at
    ELSE LET c == Head(p)
             next == IF c = RootDir THEN <<>>
                     ELSE IF c = CurDir THEN at
                     ELSE IF c = ParentDir
                          THEN (IF at = <<>> THEN at ELSE SubSeq(at, 1, Len(at) - 1))
                     ELSE Append(at, c)
         IN  ResolveFrom(next, Tail(p))

Resolve(p) == ResolveFrom(Cwd, p)

\* The locations the path walks through, one per component.
Walk(p) == [k \in 1..Len(p) |-> Resolve(SubSeq(p, 1, k))]

\* Path::exists
PathExists(ds, fs, p) ==
    /\ \A k \in 1..(Len(p) - 1) : Walk(p)[k] \in ds
    /\ Resolve(p) \in ds \cup DOMAIN fs

\* std::fs::create_dir_all: makes every directory the path walks through;
\* fails at the first of them that is a regular file.
CreateDirAll(ds, fs, p) ==
    LET w == Walk(p)
        bad == {k \in 1..Len(p) : w[k] \in DOMAIN fs}
        upto == IF bad = {} THEN Len(p) ELSE Min(bad) - 1
    IN  [ok |-> bad = {}, dirs |-> ds \cup {w[k] : k \in 1..upto}]

\* Mutant of FileCreate: File::create_new, which refuses an existing file.
FileCreateNew(ds, fs, p, data) ==
    LET at == Resolve(p)
        ok == /\ p # <<>>
              /\ \A k \in 1..(Len(p) - 1) : Walk(p)[k] \in ds
              /\ at \notin ds
              /\ at \notin DOMAIN fs
    IN  [ok |-> ok,
         files |-> IF ok
                   THEN [x \in DOMAIN fs \cup {at} |-> IF x = at THEN data ELSE fs[x]]
                   ELSE fs]

\* std::fs::File::create followed by std::io::copy of the whole content:
\* the directories on the way must exist and the target must not be a
\* directory; an existing file is truncated and rewritten.
FileCreate(ds, fs, p, data) ==
    LET w == Walk(p)
        at == Resolve(p)
        ok == /\ p # <<>>
              /\ \A k \in 1..(Len(p) - 1) : w[k] \in ds
              /\ at \notin ds
    IN  [ok |-> ok,
         files |-> IF ok
                   THEN [x \in DOMAIN fs \cup {at} |-> IF x = at THEN data ELSE fs[x]]
                   ELSE fs]


(***************************************************************************)
(* The state.  Each operation of the tool is a run of its own; a           *)
(* specification below starts one operation on bounded inputs and leaves   *)
(* the variables of the others at rest.                                    *)
(***************************************************************************)
VARIABLES
    \* JarManifest::from_lines
    lines,            \* the input lines
    linePos,          \* the next line the fold reads
    layers_index,     \* the fold's accumulator, an Option
    classpath_index,  \* the fold's accumulator, an Option
    manifestPc,       \* "fold" | "folded" | "built" | "idle"
    manifest,         \* the result: Ok(JarManifest) or Err
    \* list, classpath, layers_yaml, classpath_yaml
    indexMember,      \* what the archive holds for the index member
    cmd,              \* "list" | "classpath" | "extract" | "idle"
    items,            \* the elements the printing loop iterates over
    itemPos,          \* the next element
    printed,          \* the lines printed so far
    \* extract, extract_layer
    file_names,       \* zip.file_names(): the archive's member names
    requested,        \* the --layers argument
    plan,             \* the (name, files) pairs the iterator chain yields
    layerPos,         \* the pair try_for_each is at
    entryPos,         \* the entry extract_layer is at
    dirs,             \* the file system's directories
    files,            \* the file system's regular files
    written,          \* every file written so far, in order
    passed,           \* the (name, files) pairs extract_layer was called with
    preexisting,      \* whether an earlier run left a file in the destination
    pc,               \* "start" | "layers" | "entries" | "done" | "failed"
    err               \* the error the operation ended with

manifestVars == <<lines, linePos, layers_index, classpath_index, manifestPc, manifest>>

indexVars == <<indexMember, cmd, items, itemPos, printed>>

extractVars == <<file_names, requested, plan, layerPos, entryPos, dirs, files,
                 written, passed, preexisting>>

vars == <<manifestVars, indexVars, extractVars, pc, err>>

NoError == [kind |-> "none", layer |-> <<>>, entry |-> <<>>]

Error(k) == [kind |-> k, layer |-> <<>>, entry |-> <<>>]

(***************************************************************************)
(* src/src/manifest.rs                                                     *)
(***************************************************************************)
\* Stand-ins for the two property names: neither is a prefix of the other,
\* as with "Spring-Boot-Layers-Index" and "Spring-Boot-Classpath-Index".
PROP_LAYERS_INDEX == <<"L", "I">>

PROP_CLASSPATH_INDEX == <<"C", "I">>

\* str::starts_with
StrStartsWith(s, prefix) == IsPrefix(prefix, s)

\* str::split_once(':').map(|x| x.1): the text after the first ':'.
AfterFirstColon(s) ==
    LET at == {i \in 1..Len(s) : s[i] = ":"}
    IN  IF at = {} THEN None ELSE Some(SubSeq(s, Min(at) + 1, Len(s)))

\* str::trim_start
RECURSIVE TrimStart(_)
TrimStart(s) == IF s # <<>> /\ Head(s) = " " THEN TrimStart(Tail(s)) ELSE s

\* Mutant of PropertyValue: the value is taken without trim_start.
PropertyValueUntrimmed(line) == AfterFirstColon(line)

\* .split_once(':').map(|x| x.1).map(str::trim_start).map(String::from)
PropertyValue(line) ==
    LET rest == AfterFirstColon(line)
    IN  IF rest.some THEN Some(TrimStart(rest.v)) ELSE None

\* The closure of fold_while: the accumulator after one line.
FoldLine(acc, line) ==
    IF StrStartsWith(line, PROP_LAYERS_INDEX)
    THEN <<PropertyValue(line), acc[2]>>
    ELSE IF StrStartsWith(line, PROP_CLASSPATH_INDEX)
    THEN <<acc[1], PropertyValue(line)>>
    ELSE acc

\* Continue(result) or Done(result)
FoldDone(acc) == acc[1].some /\ acc[2].some

\* One turn of fold_while: the next line, or the end of the input.
FoldStep ==
    /\ manifestPc = "fold"
    /\ IF linePos <= Len(lines)
       THEN LET acc == FoldLine(<<layers_index, classpath_index>>, lines[linePos])
            IN  /\ layers_index' = acc[1]
                /\ classpath_index' = acc[2]
                /\ linePos' = linePos + 1
                /\ manifestPc' = IF FoldDone(acc) THEN "folded" ELSE "fold"
       ELSE /\ manifestPc' = "folded"
            /\ UNCHANGED <<layers_index, classpath_index, linePos>>
    /\ UNCHANGED <<lines, manifest, indexVars, extractVars, pc, err>>

\* Ok(Self { .. }) with the two `?`: the layers index is looked at first.
BuildManifest(l, c) ==
    IF ~l.some THEN [ok |-> FALSE, missing |-> PROP_LAYERS_INDEX,
                     layers_index |-> <<>>, classpath_index |-> <<>>]
    ELSE IF ~c.some THEN [ok |-> FALSE, missing |-> PROP_CLASSPATH_INDEX,
                          layers_index |-> <<>>, classpath_index |-> <<>>]
    ELSE [ok |-> TRUE, missing |-> <<>>,
          layers_index |-> l.v, classpath_index |-> c.v]

Build ==
    /\ manifestPc = "folded"
    /\ manifest' = BuildManifest(layers_index, classpath_index)
    /\ manifestPc' = "built"
    /\ UNCHANGED <<lines, linePos, layers_index, classpath_index,
                   indexVars, extractVars, pc, err>>

\* The manifest lines the model draws from: a head and what follows it.
LineHeads == {PROP_LAYERS_INDEX, PROP_CLASSPATH_INDEX, <<"X">>}

LineTails == {<<>>, <<":", " ", "v">>, <<":", "u", " ">>, <<":", "v", ":", "u">>}

LinePool == {h \o t : h \in LineHeads, t \in LineTails}

IdleManifest ==
    /\ lines = <<>> /\ linePos = 1
    /\ layers_index = None /\ classpath_index = None
    /\ manifestPc = "idle" /\ manifest = BuildManifest(None, None)

IdleIndex ==
    /\ indexMember = None /\ cmd = "idle"
    /\ items = <<>> /\ itemPos = 1 /\ printed = <<>>

IdleExtract ==
    /\ file_names = <<>> /\ requested = {} /\ plan = <<>>
    /\ layerPos = 1 /\ entryPos = 1
    /\ dirs = {<<>>, Cwd} /\ files = <<>> /\ written = <<>> /\ passed = <<>>
    /\ preexisting = FALSE

InitManifest ==
    /\ lines \in SeqsUpTo(LinePool, MaxLines)
    /\ linePos = 1
    /\ layers_index = None /\ classpath_index = None
    /\ manifestPc = "fold"
    /\ manifest = BuildManifest(None, None)
    /\ IdleIndex /\ IdleExtract
    /\ pc = "idle" /\ err = NoError

NextManifest == FoldStep \/ Build

SpecManifest == InitManifest /\ [][NextManifest]_vars


(***************************************************************************)
(* yaml_rust::Yaml.  A node is a record: t its kind, s the text of a       *)
(* string scalar, items the elements of a sequence, the (key, value) pairs *)
(* of a mapping in insertion order, or the key and the value of a pair.    *)
(***************************************************************************)
YStr(text) == [t |-> "str", s |-> text, items |-> <<>>]

YInt == [t |-> "int", s |-> <<>>, items |-> <<>>]

YNull == [t |-> "null", s |-> <<>>, items |-> <<>>]

YSeq(xs) == [t |-> "seq", s |-> <<>>, items |-> xs]

YPair(k, v) == [t |-> "pair", s |-> <<>>, items |-> <<k, v>>]

YMap(pairs) == [t |-> "map", s |-> <<>>, items |-> pairs]

\* Yaml::as_vec, Yaml::as_hash, Yaml::as_str
AsVec(y) == IF y.t = "seq" THEN Some(y.items) ELSE None

AsHash(y) == IF y.t = "map" THEN Some(y.items) ELSE None

AsStr(y) == IF y.t = "str" THEN Some(y.s) ELSE None

\* Iterator::flat_map, given what the closure returns for each element:
\* the elements of the parts, one part after the other.
RECURSIVE Flatten(_)
Flatten(parts) == IF parts = <<>> THEN <<>> ELSE Head(parts) \o Flatten(Tail(parts))

\* An Option as the iterator flat_map makes of it: no element, or one.
OptIter(o) == IF o.some THEN <<o.v>> ELSE <<>>

(***************************************************************************)
(* layers_yaml and classpath_yaml.  The index member of the archive is     *)
(* given by what the archive and the YAML parser answer: whether           *)
(* zip.by_name finds it, whether read_to_string can decode it, and what    *)
(* YamlLoader::load_from_str returns for its text.                         *)
(***************************************************************************)
Member(fnd, utf8, parses, ds) ==
    [found |-> fnd, utf8 |-> utf8, parses |-> parses, docs |-> ds]

Loaded(doc) == [ok |-> TRUE, doc |-> doc, err |-> NoError]

LoadFailed(kind) == [ok |-> FALSE, doc |-> YNull, err |-> Error(kind)]

LoadYaml(m) ==
    IF ~m.found THEN LoadFailed("member not found")
    ELSE IF ~m.utf8 THEN LoadFailed("read error")
    ELSE IF ~m.parses THEN LoadFailed("parse error")
    ELSE IF m.docs = <<>> THEN LoadFailed("expected 1 root")
    ELSE Loaded(Head(m.docs))

layers_yaml(m) == LoadYaml(m)

classpath_yaml(m) == LoadYaml(m)

(***************************************************************************)
(* list and classpath                                                      *)
(***************************************************************************)
HashKeys(pairs) == [i \in 1..Len(pairs) |-> pairs[i].items[1]]

\* .iter().flat_map(as_hash).flat_map(keys).flat_map(as_str)
LayerNames(elems) ==
    LET hashes == Flatten([i \in 1..Len(elems) |-> OptIter(AsHash(elems[i]))])
        keys == Flatten([i \in 1..Len(hashes) |-> HashKeys(hashes[i])])
    IN  Flatten([i \in 1..Len(keys) |-> OptIter(AsStr(keys[i]))])

\* Mutant of ClasspathEntries: map_while, which stops at the first element
\* that is not a string.
RECURSIVE ClasspathEntriesWhileStr(_)
ClasspathEntriesWhileStr(elems) ==
    IF elems = <<>> \/ ~AsStr(Head(elems)).some THEN <<>>
    ELSE <<AsStr(Head(elems)).v>> \o ClasspathEntriesWhileStr(Tail(elems))

\* .iter().flat_map(|yaml| yaml.as_str())
ClasspathEntries(elems) ==
    Flatten([i \in 1..Len(elems) |-> OptIter(AsStr(elems[i]))])

\* The part of list or classpath before its printing loop: names is what
\* the iterator chain yields for the loaded document.
StartListing(c, loaded, names) ==
    /\ cmd = c /\ pc = "start"
    /\ IF ~loaded.ok
       THEN pc' = "failed" /\ err' = loaded.err /\ items' = <<>>
       ELSE IF ~AsVec(loaded.doc).some
       THEN pc' = "failed" /\ err' = Error("expected array") /\ items' = <<>>
       ELSE pc' = "print" /\ err' = NoError /\ items' = names
    /\ UNCHANGED <<manifestVars, extractVars, indexMember, cmd, itemPos, printed>>

List ==
    LET loaded == layers_yaml(indexMember)
    IN  StartListing("list", loaded, LayerNames(AsVec(loaded.doc).v))

Classpath ==
    LET loaded == classpath_yaml(indexMember)
    IN  StartListing("classpath", loaded, ClasspathEntries(AsVec(loaded.doc).v))

\* .for_each(|name| println!("{}", name)), then Ok(())
PrintLine ==
    /\ pc = "print"
    /\ itemPos <= Len(items)
    /\ printed' = Append(printed, items[itemPos])
    /\ itemPos' = itemPos + 1
    /\ UNCHANGED <<manifestVars, extractVars, indexMember, cmd, items, pc, err>>

PrintEnd ==
    /\ pc = "print"
    /\ itemPos > Len(items)
    /\ pc' = "done"
    /\ UNCHANGED <<manifestVars, extractVars, indexVars, err>>

\* The index documents the model draws from.
ItemPool ==
    {YStr(<<"a">>), YStr(<<"b">>), YInt,
     YMap(<<YPair(YStr(<<"a">>), YNull)>>),
     YMap(<<YPair(YStr(<<"a">>), YNull), YPair(YStr(<<"b">>), YNull)>>)}

DocPool == {YSeq(xs) : xs \in SeqsUpTo(ItemPool, MaxItems)} \cup {YNull, YStr(<<"a">>)}

MoreDocsPool == {YNull, YSeq(<<YStr(<<"b">>)>>)}

MemberPool ==
    {Member(FALSE, FALSE, FALSE, <<>>), Member(TRUE, FALSE, FALSE, <<>>),
     Member(TRUE, TRUE, FALSE, <<>>), Member(TRUE, TRUE, TRUE, <<>>)}
    \cup {Member(TRUE, TRUE, TRUE, <<d>> \o more) :
            d \in DocPool, more \in SeqsUpTo(MoreDocsPool, MaxDocs - 1)}

InitIndex ==
    /\ IdleManifest /\ IdleExtract
    /\ indexMember \in MemberPool
    /\ cmd \in {"list", "classpath"}
    /\ items = <<>> /\ itemPos = 1 /\ printed = <<>>
    /\ pc = "start" /\ err = NoError

NextIndex == List \/ Classpath \/ PrintLine \/ PrintEnd

SpecIndex == InitIndex /\ [][NextIndex]_vars


(***************************************************************************)
(* extract: the iterator chain that plans the layers.                      *)
(***************************************************************************)
\* files.as_vec().map(|files| files.iter().flat_map(as_str).collect())
\*      .or_else(|| Some(Vec::default()))
DeclaredFiles(value) ==
    LET fs == AsVec(value)
    IN  IF fs.some THEN Flatten([i \in 1..Len(fs.v) |-> OptIter(AsStr(fs.v[i]))])
        ELSE <<>>

\* Mutant of PlanPair: the filter on the requested names is left out.
PlanPairUnfiltered(pair, layers) ==
    LET name == AsStr(pair.items[1])
    IN  IF name.some
        THEN <<[name |-> name.v, files |-> DeclaredFiles(pair.items[2])]>>
        ELSE <<>>

\* name.as_str().filter(|name| layers.is_empty() || layers.contains(name))
\*     .and_then(.. (name, files))
PlanPair(pair, layers) ==
    LET name == AsStr(pair.items[1])
    IN  IF name.some /\ (layers = {} \/ name.v \in layers)
        THEN <<[name |-> name.v, files |-> DeclaredFiles(pair.items[2])]>>
        ELSE <<>>

\* .iter().flat_map(as_hash).flat_map(|layers| layers.iter()).flat_map(..)
PlanLayers(elems, layers) ==
    LET hashes == Flatten([i \in 1..Len(elems) |-> OptIter(AsHash(elems[i]))])
        pairs == Flatten(hashes)
    IN  Flatten([i \in 1..Len(pairs) |-> PlanPair(pairs[i], layers)])

\* The --destination argument.
Destination == << <<"d">> >>

\* create_dir_all(destination), layers_yaml, as_vec, and the iterator chain.
Extract ==
    /\ cmd = "extract" /\ pc = "start"
    /\ LET made == CreateDirAll(dirs, files, Destination)
           loaded == layers_yaml(indexMember)
       IN  /\ dirs' = made.dirs
           /\ IF ~made.ok
              THEN pc' = "failed" /\ err' = Error("io") /\ plan' = <<>>
              ELSE IF ~loaded.ok
              THEN pc' = "failed" /\ err' = loaded.err /\ plan' = <<>>
              ELSE IF ~AsVec(loaded.doc).some
              THEN pc' = "failed" /\ err' = Error("expected array") /\ plan' = <<>>
              ELSE /\ pc' = "layers" /\ err' = NoError
                   /\ plan' = PlanLayers(AsVec(loaded.doc).v, requested)
    /\ UNCHANGED <<manifestVars, indexVars, file_names, requested, layerPos,
                   entryPos, files, written, passed, preexisting>>

(***************************************************************************)
(* extract_layer                                                           *)
(***************************************************************************)
\* The content of an archive member, named by the member.
Bytes(name) == name

\* Mutant of ByName: a lookup that answers for any name.
ByNameAlways(names, name) == TRUE

\* zip.by_name(name): the member of exactly that name, if any.
ByName(names, name) == name \in Range(names)

\* ZipFile::enclosed_name: None for a name with a root, or one that steps
\* above its start through ".."; otherwise the name as a path.
RECURSIVE EnclosedFrom(_, _)
EnclosedFrom(depth, p) ==
    IF p = <<>> THEN TRUE
    ELSE IF Head(p) = RootDir THEN FALSE
    ELSE IF Head(p) = ParentDir
         THEN (depth > 0 /\ EnclosedFrom(depth - 1, Tail(p)))
    ELSE IF Head(p) = CurDir THEN EnclosedFrom(depth, Tail(p))
    ELSE EnclosedFrom(depth + 1, Tail(p))

EnclosedName(name) ==
    IF EnclosedFrom(0, Components(name)) THEN Some(Components(name)) ELSE None

\* What a step on the file system leaves: the error, if any, the
\* directories and files, and the files written, in order.
Outcome(e, ds, fs, log) == [err |-> e, dirs |-> ds, files |-> fs, log |-> log]

\* if let Some(parent) = output_path.parent() { if !parent.exists() {
\*     create_dir_all(parent)? } }; File::create(&output_path)?; io::copy(..)?
WriteMember(ds, fs, output_path, member) ==
    LET parent == Parent(output_path)
        needed == parent.some /\ ~PathExists(ds, fs, parent.v)
        made == IF needed THEN CreateDirAll(ds, fs, parent.v)
                ELSE [ok |-> TRUE, dirs |-> ds]
        file == FileCreate(made.dirs, fs, output_path, Bytes(member))
    IN  IF ~made.ok THEN Outcome(Error("io"), made.dirs, fs, <<>>)
        ELSE IF ~file.ok THEN Outcome(Error("io"), made.dirs, fs, <<>>)
        ELSE Outcome(NoError, made.dirs, file.files,
                     <<[member |-> member, at |-> Resolve(output_path)]>>)

\* Mutant of IsChild: the prefix is tested on the text (str::starts_with),
\* not on the components.
IsChildByText(zip_entry, entry) ==
    ~EndsWithSlash(zip_entry) /\ StrStartsWith(zip_entry, entry)

\* !zip_entry.ends_with('/') && child_path.starts_with(entry)
IsChild(zip_entry, entry) ==
    ~EndsWithSlash(zip_entry) /\ StartsWith(Components(zip_entry), Components(entry))

\* for zip_entry in &file_names { .. }: the members from the i-th on.
RECURSIVE CopyChildren(_, _, _, _, _, _)
CopyChildren(ds, fs, layer_destination, entry, names, i) ==
    IF i > Len(names) THEN Outcome(NoError, ds, fs, <<>>)
    ELSE IF ~IsChild(names[i], entry)
    THEN CopyChildren(ds, fs, layer_destination, entry, names, i + 1)
    ELSE LET output_path == Join(layer_destination, Components(names[i]))
             one == WriteMember(ds, fs, output_path, names[i])
             rest == CopyChildren(one.dirs, one.files, layer_destination,
                                  entry, names, i + 1)
         IN  IF one.err # NoError THEN one
             ELSE Outcome(rest.err, rest.dirs, rest.files, one.log \o rest.log)

\* The directory case of the loop over files.
ExtractDirectory(ds, fs, layer_destination, entry, names) ==
    LET output_path == Join(layer_destination, Components(entry))
        made == CreateDirAll(ds, fs, output_path)
    IN  IF ~StartsWith(output_path, layer_destination)
        THEN Outcome(Error("path traversal"), ds, fs, <<>>)
        ELSE IF ~made.ok THEN Outcome(Error("io"), made.dirs, fs, <<>>)
        ELSE CopyChildren(made.dirs, fs, layer_destination, entry, names, 1)

\* The file case of the loop over files.
ExtractFile(ds, fs, layer, layer_destination, entry, names) ==
    IF ~ByName(names, entry)
    THEN Outcome([kind |-> "unknown file", layer |-> layer, entry |-> entry],
                 ds, fs, <<>>)
    ELSE IF ~EnclosedName(entry).some
    THEN Outcome(Error("no enclosed name"), ds, fs, <<>>)
    ELSE WriteMember(ds, fs, Join(layer_destination, EnclosedName(entry).v), entry)

\* destination.join(layer)
LayerDestination(layer) == Join(Destination, Components(layer))

\* The head of extract_layer: the layer's directory.
EnterLayer(ds, fs, layer) ==
    LET layer_destination == LayerDestination(layer)
        made == CreateDirAll(ds, fs, layer_destination)
    IN  IF ~StartsWith(layer_destination, Destination)
        THEN Outcome(Error("path traversal"), ds, fs, <<>>)
        ELSE IF ~made.ok THEN Outcome(Error("io"), made.dirs, fs, <<>>)
        ELSE Outcome(NoError, made.dirs, fs, <<>>)

\* What one step of extract_layer leaves in the state.
Leave(out, nextPc) ==
    /\ dirs' = out.dirs
    /\ files' = out.files
    /\ written' = written \o [k \in 1..Len(out.log) |->
                                [layer |-> layerPos, entry |-> entryPos,
                                 member |-> out.log[k].member, at |-> out.log[k].at]]
    /\ err' = out.err
    /\ pc' = IF out.err # NoError THEN "failed" ELSE nextPc

\* try_for_each calls extract_layer for the next pair.
BeginLayer ==
    /\ pc = "layers"
    /\ layerPos <= Len(plan)
    /\ passed' = Append(passed, plan[layerPos])
    /\ entryPos' = 1
    /\ Leave(EnterLayer(dirs, files, plan[layerPos].name), "entries")
    /\ UNCHANGED <<manifestVars, indexVars, file_names, requested, plan, layerPos,
                   preexisting>>

\* One turn of `for entry in files.iter()`.
ExtractEntry ==
    /\ pc = "entries"
    /\ entryPos <= Len(plan[layerPos].files)
    /\ LET layer == plan[layerPos].name
           entry == plan[layerPos].files[entryPos]
           is_directory == EndsWithSlash(entry)
           out == IF is_directory
                  THEN ExtractDirectory(dirs, files, LayerDestination(layer),
                                        entry, file_names)
                  ELSE ExtractFile(dirs, files, layer, LayerDestination(layer),
                                   entry, file_names)
       IN  /\ Leave(out, "entries")
           /\ entryPos' = IF out.err # NoError THEN entryPos ELSE entryPos + 1
    /\ UNCHANGED <<manifestVars, indexVars, file_names, requested, plan, layerPos,
                   passed, preexisting>>

\* extract_layer returns Ok(()).
EndLayer ==
    /\ pc = "entries"
    /\ entryPos > Len(plan[layerPos].files)
    /\ pc' = "layers"
    /\ layerPos' = layerPos + 1
    /\ UNCHANGED <<manifestVars, indexVars, file_names, requested, plan, entryPos,
                   dirs, files, written, passed, preexisting, err>>

\* try_for_each is through the pairs: extract returns Ok(()).
Finish ==
    /\ pc = "layers"
    /\ layerPos > Len(plan)
    /\ pc' = "done"
    /\ UNCHANGED <<manifestVars, indexVars, extractVars, err>>

NextExtract == Extract \/ BeginLayer \/ ExtractEntry \/ EndLayer \/ Finish


(***************************************************************************)
(* The inputs of extract the model draws from.                             *)
(***************************************************************************)
\* Member names, in the order file_names lists them.
ArchivePool ==
    << <<"a", "/">>,
       <<"a", "/", "x">>,
       <<"c">>,
       <<"a", "/", "b", "/", "y">>,
       <<"a", "b", "/", "x">>,
       <<"a", "/", ".", ".", "/", ".", ".", "/", "z">>,
       <<"a">> >>

Archives ==
    {[j \in 1..Cardinality(S) |-> ArchivePool[SortedSeq(S)[j]]] :
        S \in {T \in SUBSET (1..Len(ArchivePool)) : Cardinality(T) <= MaxMembers}}

\* Declared entries: directory markers and files.
EntryPool ==
    {<<"a", "/">>, <<"c">>, <<".", ".", "/">>, <<"/", "e", "/">>,
     <<"a", "/", ".", ".", "/", ".", ".", "/", "z">>, <<"a", "/", "x">>, <<"a">>}

LayerNamePool == {<<"l">>, <<".", ".">>, <<"/", "e">>}

YStrings(ss) == YSeq([i \in 1..Len(ss) |-> YStr(ss[i])])

YLayer(name, value) == YMap(<<YPair(YStr(name), value)>>)

IndexOf(doc) == Member(TRUE, TRUE, TRUE, <<doc>>)

\* A file left by an earlier run at <destination>/l/c.
StaleAt == Cwd \o Destination \o << <<"l">>, <<"c">> >>

StaleBytes == <<"o">>

\* extract of one layer, of any name and entries, from any archive.
InitLayer ==
    /\ IdleManifest
    /\ cmd = "extract" /\ items = <<>> /\ itemPos = 1 /\ printed = <<>>
    /\ \E name \in LayerNamePool, es \in SeqsUpTo(EntryPool, MaxEntries) :
          indexMember = IndexOf(YSeq(<<YLayer(name, YStrings(es))>>))
    /\ file_names \in Archives
    /\ requested = {}
    /\ plan = <<>> /\ layerPos = 1 /\ entryPos = 1
    /\ preexisting \in BOOLEAN
    /\ IF preexisting
          THEN /\ dirs = {SubSeq(StaleAt, 1, k) : k \in 0..(Len(StaleAt) - 1)}
               /\ files = [x \in {StaleAt} |-> StaleBytes]
          ELSE /\ dirs = {<<>>, Cwd}
               /\ files = <<>>
    /\ written = <<>> /\ passed = <<>>
    /\ pc = "start" /\ err = NoError

SpecLayer == InitLayer /\ [][NextExtract]_vars

\* The elements of a layer index: well-formed layers, and elements that are
\* not a mapping with exactly one string key.
PlanNames == {<<"l">>, <<"k">>}

PlanValues ==
    {YNull, YStrings(<< <<"c">> >>), YStrings(<< <<"m">> >>),
     YStrings(<< <<"m">>, <<"c">> >>)}

ElementPool ==
    {YLayer(n, v) : n \in PlanNames, v \in PlanValues}
    \cup {YStr(<<"l">>),
          YMap(<<YPair(YInt, YStrings(<< <<"c">> >>))>>),
          YMap(<<YPair(YStr(<<"l">>), YStrings(<< <<"c">> >>)),
                 YPair(YStr(<<"k">>), YStrings(<< <<"c">> >>))>>)}

\* extract of an index of several layers, all or some of them requested,
\* from an archive that holds c and does not hold m.
InitPlan ==
    /\ IdleManifest
    /\ cmd = "extract" /\ items = <<>> /\ itemPos = 1 /\ printed = <<>>
    /\ \E doc \in {YSeq(es) : es \in SeqsUpTo(ElementPool, MaxLayers)} \cup {YNull} :
          indexMember = IndexOf(doc)
    /\ file_names = << <<"c">> >>
    /\ requested \in SUBSET PlanNames
    /\ plan = <<>> /\ layerPos = 1 /\ entryPos = 1
    /\ dirs = {<<>>, Cwd} /\ files = <<>> /\ preexisting = FALSE
    /\ written = <<>> /\ passed = <<>>
    /\ pc = "start" /\ err = NoError

SpecPlan == InitPlan /\ [][NextExtract]_vars


(***************************************************************************)
(* Vocabulary of the properties, defined on the text of the inputs.        *)
(***************************************************************************)
HasColon(line) == \E i \in 1..Len(line) : line[i] = ":"

\* The text after the first ':' of a line that has one.
TextAfterColon(line) ==
    SubSeq(line, Min({i \in 1..Len(line) : line[i] = ":"}) + 1, Len(line))

\* s without its leading blanks, and without leading and trailing blanks.
LeadingTrimmed(s) ==
    LET ink == {i \in 1..Len(s) : s[i] # " "}
    IN  IF ink = {} THEN <<>> ELSE SubSeq(s, Min(ink), Len(s))

Trimmed(s) ==
    LET ink == {i \in 1..Len(s) : s[i] # " "}
    IN  IF ink = {} THEN <<>> ELSE SubSeq(s, Min(ink), Max(ink))

\* The lines that begin with a property name.
LinesOf(prop) == {i \in 1..Len(lines) : IsPrefix(prop, lines[i])}

\* The elements of xs at the indices in S, in order.
Pick(xs, S) == [j \in 1..Cardinality(S) |-> xs[SortedSeq(S)[j]]]

\* A layer name or entry with a ".." segment, or absolute.
HasTraversal(s) ==
    \/ (s # <<>> /\ s[1] = "/")
    \/ \E i \in 1..Len(SplitSlash(s)) : SplitSlash(s)[i] = <<".", ".">>

\* d, a directory marker, is a prefix of the member name m by whole segments.
SegmentPrefix(d, m) == IsPrefix(d, Append(m, "/"))

\* A relative name that never steps above its start through "..".
IsEnclosed(s) ==
    LET segs == SplitSlash(s)
        ups(k) == Cardinality({i \in 1..k : segs[i] = <<".", ".">>})
        downs(k) == Cardinality({i \in 1..k : segs[i] \notin {<<>>, <<".">>, <<".", ".">>}})
    IN  /\ ~(s # <<>> /\ s[1] = "/")
        /\ \A k \in 1..Len(segs) : ups(k) <= downs(k)

\* The layer and the entry extract_layer is at.
Layer == plan[layerPos]

Entry == plan[layerPos].files[entryPos]

AtLayer == pc = "layers" /\ layerPos <= Len(plan)

AtEntry == pc = "entries" /\ entryPos <= Len(plan[layerPos].files)

\* The files the step at hand writes, in order: member and location.
NewlyWritten ==
    [k \in 1..(Len(written') - Len(written)) |->
        [member |-> written'[Len(written) + k].member,
         at |-> written'[Len(written) + k].at]]

\* The location of member m under the layer's directory.
Under(layer, m) == Resolve(Destination \o Components(layer) \o Components(m))

\* The files after the writes ws on top of fs: the last write of a location wins.
Overwritten(fs, ws) ==
    [x \in DOMAIN fs \cup {ws[k].at : k \in 1..Len(ws)} |->
        IF \E k \in 1..Len(ws) : ws[k].at = x
        THEN ws[Max({k \in 1..Len(ws) : ws[k].at = x})].member
        ELSE fs[x]]

NothingWritten == dirs' = dirs /\ files' = files /\ written' = written

(***************************************************************************)
(* C1 (the claim as stated): a layer name, or a directory entry, that      *)
(* holds a ".." segment or is absolute makes extract_layer fail with the   *)
(* path traversal error, and no directory or file is created for it.       *)
(***************************************************************************)
C1_TraversalRejected ==
    [][/\ (AtLayer /\ HasTraversal(Layer.name))
            => (pc' = "failed" /\ err'.kind = "path traversal" /\ NothingWritten)
       /\ (AtEntry /\ EndsWithSlash(Entry) /\ HasTraversal(Entry))
            => (pc' = "failed" /\ err'.kind = "path traversal" /\ NothingWritten)
      ]_vars

(***************************************************************************)
(* C2 (the claim as stated): when a line begins with each property name,   *)
(* the manifest is Ok and each value is the text after the first colon of  *)
(* a line of its property, trimmed of whitespace; when a property is       *)
(* absent the result is the error naming a missing property.               *)
(***************************************************************************)
ValueOfSomeLine(prop, value) ==
    \E i \in LinesOf(prop) :
        HasColon(lines[i]) /\ value = Trimmed(TextAfterColon(lines[i]))

C2_ParsesAnyLines ==
    manifestPc = "built" =>
        IF LinesOf(PROP_LAYERS_INDEX) # {} /\ LinesOf(PROP_CLASSPATH_INDEX) # {}
        THEN /\ manifest.ok
             /\ ValueOfSomeLine(PROP_LAYERS_INDEX, manifest.layers_index)
             /\ ValueOfSomeLine(PROP_CLASSPATH_INDEX, manifest.classpath_index)
        ELSE /\ ~manifest.ok
             /\ manifest.missing \in {PROP_LAYERS_INDEX, PROP_CLASSPATH_INDEX}
             /\ LinesOf(manifest.missing) = {}

(***************************************************************************)
(* C2 (amended): for lines in which every line that begins with a property *)
(* name has a colon: when a line begins with each name, the manifest is Ok *)
(* and each value is the text after the first colon, without its leading   *)
(* blanks, of the last line of its property up to the first line by which  *)
(* both properties have occurred; when a property is absent the result is  *)
(* the error naming it (the layers index when both are absent).            *)
(***************************************************************************)
\* The first line by which both properties have occurred.
BothBy ==
    Min({k \in 1..Len(lines) :
            /\ \E i \in LinesOf(PROP_LAYERS_INDEX) : i <= k
            /\ \E i \in LinesOf(PROP_CLASSPATH_INDEX) : i <= k})

ValueRead(prop) ==
    LeadingTrimmed(TextAfterColon(lines[Max({i \in LinesOf(prop) : i <= BothBy})]))

EveryPropertyHasColon ==
    \A i \in LinesOf(PROP_LAYERS_INDEX) \cup LinesOf(PROP_CLASSPATH_INDEX) :
        HasColon(lines[i])

C2_ParsesProperties ==
    manifestPc = "built" =>
        /\ ( /\ EveryPropertyHasColon
             /\ LinesOf(PROP_LAYERS_INDEX) # {}
             /\ LinesOf(PROP_CLASSPATH_INDEX) # {} )
           => /\ manifest.ok
              /\ manifest.layers_index = ValueRead(PROP_LAYERS_INDEX)
              /\ manifest.classpath_index = ValueRead(PROP_CLASSPATH_INDEX)
        /\ LinesOf(PROP_LAYERS_INDEX) = {}
           => (~manifest.ok /\ manifest.missing = PROP_LAYERS_INDEX)
        /\ ( /\ EveryPropertyHasColon
             /\ LinesOf(PROP_LAYERS_INDEX) # {}
             /\ LinesOf(PROP_CLASSPATH_INDEX) = {} )
           => (~manifest.ok /\ manifest.missing = PROP_CLASSPATH_INDEX)

\* Both properties, the classpath index first, an unrelated line between
\* them, and a value with a leading blank.
C2_Witness ==
    /\ manifestPc = "built" /\ manifest.ok
    /\ Len(lines) = 3
    /\ lines[1] = PROP_CLASSPATH_INDEX \o <<":", "v", ":", "u">>
    /\ IsPrefix(<<"X">>, lines[2])
    /\ lines[3] = PROP_LAYERS_INDEX \o <<":", " ", "v">>
    /\ manifest.layers_index = <<"v">>
    /\ manifest.classpath_index = <<"v", ":", "u">>


(***************************************************************************)
(* C3: a step of extract_layer on a directory marker d that succeeds       *)
(* writes exactly the members of the archive that do not end in '/' and    *)
(* have d as a prefix by whole segments, each at the layer's directory     *)
(* joined with the member's name and with the member's content, in the     *)
(* order of the archive's listing; a step that an I/O error stops has      *)
(* written a prefix of them.                                               *)
(***************************************************************************)
ChildrenOf(d) ==
    LET sel == {i \in 1..Len(file_names) :
                    ~EndsWithSlash(file_names[i]) /\ SegmentPrefix(d, file_names[i])}
        names == Pick(file_names, sel)
    IN  [k \in 1..Len(names) |->
            [member |-> names[k], at |-> Under(Layer.name, names[k])]]

IndexDoc == Head(indexMember.docs)

WellFormedIndex ==
    /\ IndexDoc.t = "seq"
    /\ \A i \in 1..Len(IndexDoc.items) :
          /\ IndexDoc.items[i].t = "map"
          /\ Len(IndexDoc.items[i].items) = 1
          /\ IndexDoc.items[i].items[1].items[1].t = "str"

\* The i-th layer of a well-formed index: its name and declared entries.
IndexLayer(i) ==
    LET pair == IndexDoc.items[i].items[1]
        value == pair.items[2]
    IN  [name |-> pair.items[1].s,
         files |-> IF value.t = "seq"
                   THEN [k \in 1..Len(value.items) |-> value.items[k].s]
                   ELSE <<>>]

RequestedLayers ==
    LET all == [i \in 1..Len(IndexDoc.items) |-> IndexLayer(i)]
    IN  Pick(all, {i \in 1..Len(all) : requested = {} \/ all[i].name \in requested})

C4_LayerFiltering ==
    (WellFormedIndex /\ pc # "start") =>
        /\ IsPrefix(passed, RequestedLayers)
        /\ pc = "done" => passed = RequestedLayers
        /\ \A n \in PlanNames :
              (requested # {} /\ n \notin requested) =>
                  /\ \A k \in 1..Len(passed) : passed[k].name # n
                  /\ Resolve(Destination \o <<n>>) \notin dirs

\* The index [l, k, l] with k requested: only k is extracted.
C4_Witness ==
    /\ pc = "done" /\ WellFormedIndex
    /\ Len(IndexDoc.items) = 3
    /\ IndexLayer(1).name = <<"l">> /\ IndexLayer(2).name = <<"k">>
    /\ IndexLayer(3).name = <<"l">>
    /\ IndexLayer(2).files = << <<"c">> >>
    /\ requested = {<<"k">>}
    /\ Len(passed) = 1 /\ passed[1].name = <<"k">>
    /\ DOMAIN files = {Cwd \o << <<"d">>, <<"k">>, <<"c">> >>}

(***************************************************************************)
(* C5: when extract_layer comes to a file entry that the archive does not  *)
(* hold, extract ends with the error naming the layer and the entry and    *)
(* that step creates nothing; after an error no step follows (no later     *)
(* entry, no later layer), and every file written by the layers before is  *)
(* still on disk.                                                          *)
(***************************************************************************)
C5_MissingMemberFailFast ==
    [][/\ pc \notin {"failed", "done"}
       /\ (AtEntry /\ ~EndsWithSlash(Entry) /\ Entry \notin Range(file_names)) =>
             /\ pc' = "failed"
             /\ err' = [kind |-> "unknown file", layer |-> Layer.name, entry |-> Entry]
             /\ NothingWritten
             /\ passed' = passed /\ layerPos' = layerPos /\ entryPos' = entryPos
             /\ \A k \in 1..Len(written) : written[k].at \in DOMAIN files'
             /\ \A k \in 1..Len(written) : written[k].layer < layerPos
      ]_vars

\* The second of three layers declares [m, c]: the first layer's file stays,
\* and neither c nor the third layer is extracted.
C5_Witness ==
    /\ pc = "failed" /\ err.kind = "unknown file"
    /\ err.entry = <<"m">> /\ err.layer = <<"k">>
    /\ Len(plan) = 3 /\ layerPos = 2 /\ entryPos = 1
    /\ plan[1].name = <<"l">>
    /\ plan[2].files = << <<"m">>, <<"c">> >>
    /\ Len(passed) = 2
    /\ Len(written) = 1
    /\ DOMAIN files = {Cwd \o << <<"d">>, <<"l">>, <<"c">> >>}

(***************************************************************************)
(* C6 (the claim as stated): a step of extract_layer on a file entry that  *)
(* names a member of the archive writes exactly one file, at the layer's   *)
(* directory joined with the member's name, with the member's content,     *)
(* replacing a file that was there.                                        *)
(***************************************************************************)
AtPresentFile == AtEntry /\ ~EndsWithSlash(Entry) /\ Entry \in Range(file_names)

OneFile == <<[member |-> Entry, at |-> Under(Layer.name, Entry)]>>

C6_FileEntryWritten ==
    [][AtPresentFile =>
          /\ pc' = "entries"
          /\ NewlyWritten = OneFile
          /\ files' = Overwritten(files, OneFile)
      ]_vars

(***************************************************************************)
(* C6 (amended): a step of extract_layer on a file entry that names a      *)
(* member of the archive whose name is enclosed (relative, and never above *)
(* its start through "..") writes exactly one file, at the layer's         *)
(* directory joined with the member's name, with the member's content,     *)
(* replacing a file that was there, and changes no other file; it fails,   *)
(* with an I/O error and nothing written, only when that location is a     *)
(* directory or a directory on the way to it is a regular file.  For a     *)
(* member whose name is not enclosed the step fails and writes nothing.    *)
(***************************************************************************)
\* The output path runs into the file system as it is.
Occupied(p) ==
    \/ Resolve(p) \in dirs
    \/ \E k \in 1..(Len(p) - 1) : Resolve(SubSeq(p, 1, k)) \in DOMAIN files

C6_EnclosedFileEntryWritten ==
    [][AtPresentFile =>
          IF IsEnclosed(Entry)
          THEN IF Occupied(Destination \o Components(Layer.name) \o Components(Entry))
               THEN pc' = "failed" /\ err'.kind = "io"
                    /\ files' = files /\ written' = written
               ELSE /\ pc' = "entries"
                    /\ NewlyWritten = OneFile
                    /\ files' = Overwritten(files, OneFile)
                    /\ dirs \subseteq dirs'
          ELSE pc' = "failed" /\ err'.kind = "no enclosed name" /\ NothingWritten
      ]_vars

\* The layer l declares [c]; the file an earlier run left at l/c now holds
\* the content of the member c.
C6_Witness ==
    /\ pc = "done" /\ preexisting
    /\ Len(plan) = 1 /\ plan[1].name = <<"l">> /\ plan[1].files = << <<"c">> >>
    /\ Len(written) = 1 /\ written[1].at = StaleAt
    /\ DOMAIN files = {StaleAt}
    /\ files[StaleAt] = <<"c">>

(***************************************************************************)
(* C7: for a classpath index that is a sequence, classpath prints the      *)
(* string elements of the sequence, in order, and nothing else, skipping   *)
(* the other elements; for an index that is not a sequence it fails.       *)
(***************************************************************************)
IndexLoads ==
    indexMember.found /\ indexMember.utf8 /\ indexMember.parses /\ indexMember.docs # <<>>

StringsOf(doc) ==
    LET strs == Pick(doc.items, {i \in 1..Len(doc.items) : doc.items[i].t = "str"})
    IN  [k \in 1..Len(strs) |-> strs[k].s]

C7_ClasspathListing ==
    (cmd = "classpath" /\ IndexLoads /\ pc # "start") =>
        IF IndexDoc.t = "seq"
        THEN /\ pc \in {"print", "done"}
             /\ IsPrefix(printed, StringsOf(IndexDoc))
             /\ pc = "done" => printed = StringsOf(IndexDoc)
        ELSE pc = "failed" /\ err.kind = "expected array" /\ printed = <<>>

\* The index [a, <not a string>, b]: a and b are printed.
C7_Witness ==
    /\ cmd = "classpath" /\ pc = "done" /\ IndexLoads
    /\ IndexDoc.t = "seq" /\ Len(IndexDoc.items) = 3
    /\ IndexDoc.items[2].t = "int"
    /\ printed = << <<"a">>, <<"b">> >>

(***************************************************************************)
(* C8 (the claim as stated): every file written for a member selected by a *)
(* directory marker lies inside the layer's directory.                     *)
(***************************************************************************)
C8_ChildrenStayInside ==
    \A k \in 1..Len(written) :
        LET layer == plan[written[k].layer].name
            entry == plan[written[k].layer].files[written[k].entry]
            root == Resolve(Destination \o Components(layer))
        IN  (EndsWithSlash(entry) /\ ~HasTraversal(entry) /\ ~HasTraversal(layer))
                => (IsPrefix(root, written[k].at) /\ written[k].at # root)

(***************************************************************************)
(* C9 (the claim as stated): extract fails with the "expected array"       *)
(* error unless the layer index is a sequence whose every element is a     *)
(* mapping with exactly one key.                                           *)
(***************************************************************************)
SingleKeyMappings ==
    /\ IndexDoc.t = "seq"
    /\ \A i \in 1..Len(IndexDoc.items) :
          IndexDoc.items[i].t = "map" /\ Len(IndexDoc.items[i].items) = 1

C9_IndexShapeChecked ==
    (pc # "start" /\ ~SingleKeyMappings) =>
        (pc = "failed" /\ err.kind = "expected array" /\ passed = <<>>)

(***************************************************************************)
(* C10 (the claim as stated): loading an index fails with "member not      *)
(* found" for an absent member, with a parse error for malformed text and  *)
(* with "expected 1 root" when the parser yields no document or more than  *)
(* one; with exactly one document the command goes on with that document.  *)
(***************************************************************************)
C10_IndexLoading ==
    pc # "start" =>
        /\ ~indexMember.found => (pc = "failed" /\ err.kind = "member not found")
        /\ (indexMember.found /\ indexMember.utf8 /\ ~indexMember.parses)
              => (pc = "failed" /\ err.kind = "parse error")
        /\ (indexMember.found /\ indexMember.utf8 /\ indexMember.parses
                /\ Len(indexMember.docs) # 1)
              => (pc = "failed" /\ err.kind = "expected 1 root")
        /\ (indexMember.found /\ indexMember.utf8 /\ indexMember.parses
                /\ Len(indexMember.docs) = 1)
              => err.kind \notin {"member not found", "read error", "parse error",
                                  "expected 1 root"}

=============================================================================
